---------------------------- MODULE Spec2Model ----------------------------
(***************************************************************************)
(* wellbeing_analysis: the scoring call wellbeingAnalysis(str, opts) of    *)
(* v4.0.0 (src/index.js, lines 84-221), as a state machine.  One call is   *)
(* followed statement group by statement group; the caller's options      *)
(* object is state the call writes to, the console and the calls made to   *)
(* the external collaborators are recorded as they happen.                 *)
(*                                                                         *)
(* JavaScript values are tagged records with the same fields whatever the  *)
(* type, strings that the code matches against a regular expression are    *)
(* drawn from a finite universe whose matches are tabulated, and a text is *)
(* a sequence of words.  Lexicon weights and the min/max options are       *)
(* integers, in thousandths; an intercept keeps its nine decimals as a     *)
(* pair <<units, billionths>>.                                             *)
(***************************************************************************)
EXTENDS Integers, Sequences, FiniteSets, TLC

VARIABLES
  pc,         \* position in the call
  args,       \* the arguments the caller passed, as they were at the call
  str,        \* the parameter str, reassigned at lines 129-133
  opts,       \* the parameter opts: the caller's object, written in place
  tokEmpty,   \* how the installed tokenizer reports "no tokens"
  tokens,     \* let tokens (line 135)
  wordcount,  \* let wordcount (line 142)
  idx,        \* async.each's position in nGrams (line 145)
  eachErr,    \* the first error handed to async.each's callback
  lexicon,    \* let lexicon (line 162): the name of the lexicon chosen
  ints,       \* let ints (line 163)
  matches,    \* const matches (line 194)
  result,     \* what the call returns
  console,    \* console.warn / console.error lines written, in order
  calls,      \* calls made to the external modules, in order
  previous    \* what the caller's previous call returned

vars == <<pc, args, str, opts, tokEmpty, tokens, wordcount, idx, eachErr, lexicon,
          ints, matches, result, console, calls, previous>>

---------------------------------------------------------------------------
(* Bounds of the model.                                                    *)

MaxWords == 3

\* the most times a text is repeated
MaxRepeat == 3

---------------------------------------------------------------------------
(* JavaScript values.                                                      *)

JSVal(t, s, n, a) == [t |-> t, s |-> s, n |-> n, a |-> a]
Undefined == JSVal("undefined", "", 0, <<>>)
Null      == JSVal("null", "", 0, <<>>)
Str(x)    == JSVal("string", x, 0, <<>>)
Num(x)    == JSVal("number", "finite", x, <<>>)
PosInf    == JSVal("number", "+Infinity", 0, <<>>)
NegInf    == JSVal("number", "-Infinity", 0, <<>>)
NaN       == JSVal("number", "NaN", 0, <<>>)
True      == JSVal("boolean", "true", 1, <<>>)
False     == JSVal("boolean", "false", 0, <<>>)
Arr(q)    == JSVal("array", "", 0, q)

\* typeof v
TypeOf(v) == IF v.t \in {"null", "array"} THEN "object" ELSE v.t

\* v in a boolean context: if (v), !v
Truthy(v) ==
  CASE v.t \in {"undefined", "null"} -> FALSE
    [] v.t = "boolean" -> v = True
    [] v.t = "number"  -> v.s \in {"+Infinity", "-Infinity"}
                            \/ (v.s = "finite" /\ v.n # 0)
    [] v.t = "string"  -> v.s # ""
    [] OTHER -> TRUE

\* The numeric strings of the model, in thousandths.
NumericStrings == ("0" :> 0) @@ ("" :> 0) @@ ("0.25" :> 250) @@ ("2" :> 2000)

\* Number(v)
ToNumber(v) ==
  CASE v.t = "number"    -> v
    [] v.t = "undefined" -> NaN
    [] v.t = "null"      -> Num(0)
    [] v.t = "boolean"   -> Num(v.n * 1000)
    [] v.t = "string"    -> IF v.s \in DOMAIN NumericStrings
                            THEN Num(NumericStrings[v.s]) ELSE NaN
    [] OTHER -> IF v.a = <<>> THEN Num(0) ELSE NaN

\* v == 0 (loose equality), for a v that is no array
LooseEqZero(v) == LET n == ToNumber(v) IN
  v.t \notin {"undefined", "null"} /\ n.s = "finite" /\ n.n = 0

\* v == false (loose equality): false is converted to the number 0
LooseEqFalse(v) == LooseEqZero(v)

\* as if the level were tested with >=
AtLeast(v, k) == LET n == ToNumber(v) IN
  \/ n.s = "+Infinity"
  \/ n.s = "finite" /\ n.n >= k

\* a > k for the logs option against the integer level k
GreaterThan(v, k) == LET n == ToNumber(v) IN
  \/ n.s = "+Infinity"
  \/ n.s = "finite" /\ n.n > k

\* The strings the options take in the model, each with the patterns of the
\* code's regular expressions (all /.../gi: anywhere, any case) found in it.
RegexHits ==
  ("lex" :> {"lex"}) @@ ("matches" :> {"matches"}) @@ ("full" :> {"full"}) @@
  ("english" :> {"english"}) @@ ("spanish" :> {"spanish"}) @@
  ("Espanol" :> {"espanol"}) @@ ("US" :> {}) @@ ("GB" :> {"gb"}) @@
  ("values" :> {}) @@ ("binary" :> {}) @@ ("frequency" :> {}) @@
  ("freq" :> {}) @@ ("true" :> {}) @@ ("x" :> {})

\* s.match(/re/gi) is not null
Match(s, re) == s \in DOMAIN RegexHits /\ re \in RegexHits[s]


---------------------------------------------------------------------------
(* Texts.  A text is a sequence of words, with or without white space      *)
(* around it; the parameter str may also be undefined, null or a number.   *)

RawWords == {"Happy", "colour"}

\* String.prototype.toLowerCase, word by word
LowerCase == ("Happy" :> "happy") @@ ("colour" :> "colour") @@ ("7" :> "7")

\* british_american_translate's uk2us, word by word
Uk2UsWords == ("happy" :> "happy") @@ ("colour" :> "color") @@ ("7" :> "7")

StrVal(t, pad, words) == [t |-> t, pad |-> pad, words |-> words]
StrUndefined == StrVal("undefined", FALSE, <<>>)
StrNull      == StrVal("null", FALSE, <<>>)
StrNumber(w) == StrVal("number", FALSE, <<w>>)
Text(pad, words) == StrVal("string", pad, words)

WordSeqs == UNION {[1..k -> RawWords] : k \in 0..MaxWords}

\* The values of str a caller passes: the words, alone or with white space
\* around them; nothing but white space; the empty string; no string.
StrInputs ==
  {StrUndefined, StrNull, StrNumber("0"), StrNumber("7")}
    \cup {Text(FALSE, w) : w \in WordSeqs}
    \cup {Text(TRUE, w) : w \in {q \in WordSeqs : Len(q) <= 1}}

\* !str
StrFalsy(s) ==
  \/ s.t \in {"undefined", "null"}
  \/ s.t = "number" /\ s.words = <<"0">>
  \/ s.t = "string" /\ s.words = <<>> /\ ~s.pad

\* str.toString(), for a str that is not a string (line 129)
ToStringOf(s) == IF s.t = "string" THEN s ELSE Text(FALSE, s.words)

\* str.trim().toLowerCase() (line 131)
TrimLower(s) == Text(FALSE, [i \in 1..Len(s.words) |-> LowerCase[s.words[i]]])

\* trans.uk2us(str) (line 133)
uk2us(s) == Text(s.pad, [i \in 1..Len(s.words) |-> Uk2UsWords[s.words[i]]])

\* tokenizer(str, {logs}) (line 135): the words of str; for a str without
\* words, null or an empty list, as the installed tokenizer has it.
tokenizer(s, empty) ==
  IF s.words = <<>> THEN (IF empty = "null" THEN Null ELSE Arr(<<>>))
  ELSE Arr(s.words)

RECURSIVE Join(_)
\* Array.prototype.join(' ')
Join(ws) == IF Len(ws) = 1 THEN ws[1] ELSE ws[1] \o " " \o Join(Tail(ws))

\* arr2string(simplengrams(str, n, {logs})) (line 150): every run of n
\* consecutive words of str, each joined by single spaces, in text order.
simplengrams(s, n) ==
  IF n < 1 \/ n > Len(s.words) THEN <<>>
  ELSE [i \in 1..(Len(s.words) - n + 1) |-> Join(SubSeq(s.words, i, i + n - 1))]

\* itemCount(tokens) (line 194): unit -> number of occurrences
itemCount(ts) ==
  [u \in {ts[i] : i \in 1..Len(ts)} |-> Cardinality({i \in 1..Len(ts) : ts[i] = u})]

---------------------------------------------------------------------------
(* Lexicons and intercepts.                                                *)

Categories == {"POS_P", "POS_E", "POS_R", "POS_M", "POS_A",
               "NEG_P", "NEG_E", "NEG_R", "NEG_M", "NEG_A"}

NoUnits == [u \in {} |-> 0]

\* require('./data/english.json') (line 63), cut to the model's words
english ==
  [c \in Categories |->
    CASE c = "POS_P" -> ("happy" :> 500) @@ ("happy color" :> 250)
      [] c = "POS_E" -> ("color" :> 200) @@ ("happy happy" :> 125)
      [] c = "POS_R" -> ("happy happy happy" :> 75)
      [] c = "NEG_P" -> ("happy" :> -120) @@ ("colour" :> -40)
      [] c = "NEG_A" -> ("7" :> 10)
      [] OTHER -> NoUnits]

\* require('./data/spanish.json') (line 64), cut to the model's words
spanish ==
  [c \in Categories |->
    CASE c = "POS_P" -> ("happy" :> -400) @@ ("color" :> 300)
      [] c = "POS_M" -> ("happy color" :> 150)
      [] c = "NEG_P" -> ("color" :> 900) @@ ("happy" :> 60)
      [] c = "NEG_E" -> ("color color" :> 1100) @@ ("colour" :> 35)
      [] OTHER -> NoUnits]

Lexicons == ("english" :> english) @@ ("spanish" :> spanish)

\* The intercepts of lines 163-174: zero for every category
ZeroInts == [c \in Categories |-> <<0, 0>>]

\* The intercepts of lines 179-190, as <<units, billionths>>
SpanishInts ==
  [c \in Categories |->
    CASE c = "POS_P" -> <<2, 675173871>>
      [] c = "POS_E" -> <<2, 055179283>>
      [] c = "POS_R" -> <<1, 977389757>>
      [] c = "POS_M" -> <<1, 738298902>>
      [] c = "POS_A" -> <<3, 414517804>>
      [] c = "NEG_P" -> <<2, 504682970>>
      [] c = "NEG_E" -> <<1, 673629622>>
      [] c = "NEG_R" -> <<1, 782788984>>
      [] c = "NEG_M" -> <<1, 528902840>>
      [] OTHER -> <<2, 482131179>>]

---------------------------------------------------------------------------
(* The lex-helpers module: getMatches, doLex, doMatches.  Its code is not  *)
(* part of the sources; it is modelled from its contract.                  *)

\* a < b for two JavaScript numbers, the second a weight or a bound
NumLess(a, b) ==
  /\ a.s # "NaN" /\ b.s # "NaN"
  /\ \/ a.s = "-Infinity" /\ b.s # "-Infinity"
     \/ b.s = "+Infinity" /\ a.s # "+Infinity"
     \/ a.s = "finite" /\ b.s = "finite" /\ a.n < b.n

\* min < w <= max
InBounds(w, min, max) == NumLess(min, Num(w)) /\ ~NumLess(max, Num(w))
                           /\ max.s # "NaN"

\* getMatches(counts, lexicon, min, max): per category, a record for every
\* unit of the lexicon that occurs in the text with a weight within bounds.
getMatches(counts, lex, min, max) ==
  [c \in Categories |->
    {[unit |-> u, count |-> counts[u], weight |-> lex[c][u]] :
       u \in {v \in DOMAIN lex[c] \cap DOMAIN counts : InBounds(lex[c][v], min, max)}}]

RECURSIVE SumOver(_, _)
\* the sum of f[x] over the finite set S
SumOver(f, S) ==
  IF S = {} THEN 0
  ELSE LET x == CHOOSE y \in S : TRUE IN f[x] + SumOver(f, S \ {x})

RECURSIVE GCD(_, _)
\* the greatest common divisor of two naturals
GCD(a, b) == IF b = 0 THEN a ELSE GCD(b, a % b)

Abs(n) == IF n < 0 THEN -n ELSE n

\* the fraction n/d in lowest terms; d = 0 stands for a division by zero
Frac(n, d) ==
  IF d = 0 THEN [num |-> n, den |-> 0]
  ELSE LET g == GCD(Abs(n), d) IN [num |-> n \div g, den |-> d \div g]

\* the encoding option as lex-helpers reads it
IsFrequency(encoding) == encoding.t = "string" /\ encoding.s \in {"frequency", "freq"}

\* one unit's lexical value: its weight (binary), or
\* (count / wordcount) * weight (frequency)
UnitLex(m, encoding, wc) ==
  IF IsFrequency(encoding) THEN Frac(m.count * m.weight, wc) ELSE Frac(m.weight, 1)

\* the sum of the units' lexical values of one category
CategoryLex(ms, encoding, wc) ==
  IF IsFrequency(encoding) /\ ms # {}
  THEN Frac(SumOver([m \in ms |-> m.count * m.weight], ms), wc)
  ELSE Frac(SumOver([m \in ms |-> m.weight], ms), 1)

\* doLex(matches, ints, encoding, wordcount, places): per category, the
\* intercept and the sum it is added to, and the places it is rounded to.
doLex(ms, int, encoding, wc, places) ==
  [c \in Categories |->
    [intercept |-> int[c], sum |-> CategoryLex(ms[c], encoding, wc),
     places |-> places]]

RECURSIVE SetToSeq(_)
\* the elements of a finite set, in some fixed order
SetToSeq(S) ==
  IF S = {} THEN <<>>
  ELSE LET x == CHOOSE y \in S : TRUE IN <<x>> \o SetToSeq(S \ {x})

\* a/b > c/d for fractions with positive denominators
FracGreater(p, q) == p.num * q.den > q.num * p.den

\* the row [unit, count, weight, lexical value] of one match
MatchRow(m, encoding, wc) == <<m.unit, m.count, m.weight, UnitLex(m, encoding, wc)>>

\* the sort of doMatches: descending by count ('freq'), by lexical value
\* ('lex') or by weight ('weight')
SortedRows(rows, sortBy) ==
  SortSeq(rows, LAMBDA r1, r2 :
    CASE sortBy = Str("weight") -> r1[3] > r2[3]
      [] sortBy = Str("lex") /\ r1[4].den > 0 /\ r2[4].den > 0 -> FracGreater(r1[4], r2[4])
      [] OTHER -> r1[2] > r2[2])

\* doMatches(matches, encoding, wordcount, sortBy, places): per category, the
\* sorted rows and the summary counts.
doMatches(ms, encoding, wc, sortBy, places) ==
  [c \in Categories |->
    LET total == SumOver([m \in ms[c] |-> m.count], ms[c]) IN
    [matches |-> SortedRows(SetToSeq({MatchRow(m, encoding, wc) : m \in ms[c]}), sortBy),
     info |-> [total_matches |-> total,
               total_unique_matches |-> Cardinality(ms[c]),
               total_tokens |-> wc,
               percent_matches |-> Frac(total * 100, wc)],
     places |-> places]]

---------------------------------------------------------------------------
(* The options object.                                                     *)

Keys == {"encoding", "lang", "locale", "logs", "suppressLog", "max", "min",
         "nGrams", "noInt", "output", "places", "sortBy", "wcGrams"}

\* {}: every property undefined
EmptyObject == [k \in Keys |-> Undefined]

\* The argument opts: an object, or no argument, null or a number
OptsVal(t, o) == [t |-> t, o |-> o]
Obj(o)        == OptsVal("object", o)
OptsUndefined == OptsVal("undefined", EmptyObject)
OptsNull      == OptsVal("null", EmptyObject)
OptsNumber    == OptsVal("number", EmptyObject)

\* the object o with the properties of the function p set
With(o, p) == [k \in Keys |-> IF k \in DOMAIN p THEN p[k] ELSE o[k]]

\* Options on which language, locale, intercepts and output shape depend
LanguageOptions ==
  {With(EmptyObject, ("lang" :> l) @@ ("locale" :> lc) @@ ("noInt" :> ni) @@ ("output" :> out)) :
     l \in {Undefined, Str("english"), Str("spanish")},
     lc \in {Undefined, Str("US"), Str("GB")},
     ni \in {Undefined, True, False},
     out \in {Undefined, Str("lex"), Str("matches"), Str("full"), Str("spanish"),
              Str("values"), Num(5), Null}}

\* Options on which the units, the word count and the encoding depend
UnitOptions ==
  {With(EmptyObject, ("nGrams" :> ng) @@ ("wcGrams" :> wg) @@ ("encoding" :> e) @@ ("output" :> out)) :
     ng \in {Undefined, Num(0), Str("x"), Arr(<<>>), Arr(<<0>>), Arr(<<0, 2>>),
             Arr(<<2>>), Arr(<<3>>), Arr(<<5>>), Arr(<<5, 2>>), Arr(<<3, 1>>)},
     wg \in {Undefined, True, False, Str("true")},
     e \in {Undefined, Str("binary"), Str("frequency")},
     out \in {Undefined, Str("matches"), Str("full")}}

\* Options on which the weight filter and the console depend
FilterOptions ==
  {With(EmptyObject, ("min" :> mn) @@ ("max" :> mx) @@ ("logs" :> lg) @@ ("suppressLog" :> sl)) :
     mn \in {Undefined, Num(-100), Str("x")},
     mx \in {Undefined, Num(200), Str("0.25")},
     lg \in {Undefined, Num(0), Num(1), Num(2)},
     sl \in {Undefined, True}}

\* Options that make the call warn, under each level of logs
LogOptions ==
  {With(EmptyObject, ("logs" :> lg) @@ ("suppressLog" :> sl) @@ ("nGrams" :> ng) @@ ("output" :> out)) :
     lg \in {Undefined, Num(0), Num(1), Num(2)},
     sl \in {Undefined, True},
     ng \in {Str("x")},
     out \in {Undefined, Str("values")}}

OptsInputs ==
  {OptsUndefined, OptsNull, OptsNumber}
    \cup {Obj(o) : o \in LanguageOptions \cup UnitOptions \cup FilterOptions \cup LogOptions}

---------------------------------------------------------------------------
(* One call, as the record of its variables.                               *)

NoResult        == [kind |-> "none"]
ReturnNull      == [kind |-> "null"]
ReturnUndefined == [kind |-> "undefined"]
Throw(e)        == [kind |-> "throw", error |-> e]

Warn(f, msg)  == Append(f.console, [level |-> "warn", msg |-> msg])
Error(f, msg) == Append(f.console, [level |-> "error", msg |-> msg])

\* The state a call starts in
Called(s, o, te) ==
  [pc |-> "defaults", args |-> [str |-> s, opts |-> o],
   str |-> s, opts |-> o, tokEmpty |-> te,
   tokens |-> Undefined, wordcount |-> 0, idx |-> 0, eachErr |-> FALSE,
   lexicon |-> "none", ints |-> ZeroInts, matches |-> [c \in Categories |-> {}],
   result |-> NoResult, console |-> <<>>, calls |-> <<>>]

\* opts.k = (typeof opts.k === 'undefined') ? d : opts.k
Default(o, k, d) == IF TypeOf(o[k]) = "undefined" THEN [o EXCEPT ![k] = d] ELSE o

\* lines 91-100: max and min
minMax(o) ==
  LET a == Default(Default(o, "max", PosInf), "min", NegInf) IN
  IF TypeOf(a["max"]) # "number" \/ TypeOf(a["min"]) # "number"
  THEN LET b == [a EXCEPT !["min"] = ToNumber(a["min"]), !["max"] = ToNumber(a["max"])] IN
       [b EXCEPT !["max"] = IF TypeOf(b["max"]) = "number" THEN b["max"] ELSE PosInf,
                 !["min"] = IF TypeOf(b["min"]) = "number" THEN b["min"] ELSE NegInf]
  ELSE a

\* as if the call took the first span off the caller's array
nGramsOptionUsedUp(o) ==
  LET a == Default(o, "nGrams", Arr(<<2, 3>>)) IN
  IF a["nGrams"].t # "array"
  THEN [a EXCEPT !["nGrams"] = IF LooseEqZero(a["nGrams"]) THEN Arr(<<0>>) ELSE Arr(<<2, 3>>)]
  ELSE [a EXCEPT !["nGrams"] = IF a["nGrams"].a = <<>> THEN a["nGrams"] ELSE Arr(Tail(a["nGrams"].a))]

\* lines 101-111: nGrams, without the warning
nGramsOption(o) ==
  LET a == Default(o, "nGrams", Arr(<<2, 3>>)) IN
  IF a["nGrams"].t # "array"
  THEN [a EXCEPT !["nGrams"] = IF LooseEqZero(a["nGrams"]) THEN Arr(<<0>>) ELSE Arr(<<2, 3>>)]
  ELSE a

\* lines 102-108: whether the nGrams warning is written, for the nGrams
\* the caller gave and the logs of lines 89-90
nGramsWarned(nGrams, logs) ==
  /\ TypeOf(nGrams) # "undefined" /\ nGrams.t # "array"
  /\ ~LooseEqZero(nGrams)
  /\ GreaterThan(logs, 1)

\* lines 86-115: the caller's object after the defaults are written to it
normalisedOptions(o) ==
  LET a == Default(Default(Default(Default(o, "encoding", Str("binary")),
                     "lang", Str("english")), "locale", Str("US")), "logs", Num(3))
      b == IF Truthy(a["suppressLog"]) THEN [a EXCEPT !["logs"] = Num(0)] ELSE a
      c == nGramsOption(minMax(b))
  IN Default(Default(Default(Default(c, "noInt", False), "output", Str("lex")),
               "sortBy", Str("freq")), "wcGrams", False)

\* lines 84-122.  An opts that is null has no properties to read, and a
\* property cannot be set on a number in strict mode (line 60): both throw
\* a TypeError at line 86.
defaultOptions(f) ==
  IF f.opts.t \in {"null", "number"}
  THEN [f EXCEPT !.pc = "thrown", !.result = Throw("TypeError")]
  ELSE LET o == normalisedOptions(f.opts.o) IN
       [f EXCEPT !.pc = "checkStr", !.opts = Obj(o),
                 !.console = IF nGramsWarned(f.opts.o["nGrams"], o["logs"])
                             THEN Warn(f, "nGrams option must be an array! Defaulting to [2, 3].")
                             ELSE f.console]

\* lines 124-127
checkStr(f) ==
  IF StrFalsy(f.str)
  THEN [f EXCEPT !.pc = "done", !.result = ReturnNull,
                 !.console = IF GreaterThan(f.opts.o["logs"], 1)
                             THEN Warn(f, "no string found. Returning null.")
                             ELSE f.console]
  ELSE [f EXCEPT !.pc = "normalise"]

\* as line 128 of v3.0.1 has it: the locale alone decides
translatesAnyLanguage(lang, locale) == locale = Str("GB")

\* line 133: whether the text is translated.  match is a method of strings
\* only, and the locale is looked at only when the language matched.
translates(lang, locale) == Match(lang.s, "english") /\ Match(locale.s, "gb")

\* lines 129-133
normalise(f) ==
  LET o == f.opts.o
      s == TrimLower(ToStringOf(f.str))
  IN IF o["lang"].t # "string"
          \/ (Match(o["lang"].s, "english") /\ o["locale"].t # "string")
     THEN [f EXCEPT !.pc = "thrown", !.str = s, !.result = Throw("TypeError")]
     ELSE IF translates(o["lang"], o["locale"])
          THEN [f EXCEPT !.pc = "tokenize", !.str = uk2us(s),
                         !.calls = Append(f.calls, [fn |-> "uk2us", str |-> s])]
          ELSE [f EXCEPT !.pc = "tokenize", !.str = s]

\* !tokens (line 137): null is falsy, an array is truthy even when empty
NoTokens(ts) == ~Truthy(ts)

\* as line 139 of v3.0.1 has it: if (nGrams)
wantsNGramsAlways(nGrams) == Truthy(nGrams)

\* as if the words were counted once each
wordsCountedOnce(ts) == Cardinality({ts[i] : i \in 1..Len(ts)})

\* line 142: wordcount = tokens.length
wordsCounted(ts) == Len(ts)

\* line 144: nGrams && !nGrams.includes(0)
wantsNGrams(nGrams) == Truthy(nGrams) /\ \A i \in 1..Len(nGrams.a) : nGrams.a[i] # 0

\* lines 135-144: the tokens, the word count, and whether async.each has
\* anything to go through
tokenize(f) ==
  LET ts == tokenizer(f.str, f.tokEmpty)
      cs == Append(f.calls, [fn |-> "tokenizer", str |-> f.str, logs |-> f.opts.o["logs"]])
  IN IF NoTokens(ts)
     THEN [f EXCEPT !.pc = "done", !.tokens = ts, !.calls = cs, !.result = ReturnNull,
                    !.console = IF GreaterThan(f.opts.o["logs"], 1)
                                THEN Warn(f, "no tokens found. Returned null.")
                                ELSE f.console]
     ELSE [f EXCEPT !.tokens = ts, !.calls = cs, !.wordcount = wordsCounted(ts.a), !.idx = 1,
                    !.pc = IF wantsNGrams(f.opts.o["nGrams"]) /\ Len(f.opts.o["nGrams"].a) > 0
                           THEN "eachNGram" ELSE "selectLexicon"]

\* async.each (line 145) on an array: the iteratee is called for every
\* element in turn, whatever the earlier ones handed to their callbacks.
eachNext(i, failed) == i + 1

\* a span as long as the text left out too
skipsAtEqual(wc, n) == wc <= n

\* line 146: whether the span n is left out of a text of wc words
skips(wc, n) == wc < n

\* lines 145-157: the iteratee on nGrams[idx], and async.each's final
\* callback when this is the first error
eachNGram(f) ==
  LET nGrams == f.opts.o["nGrams"].a
      n == nGrams[f.idx]
      skip == skips(f.wordcount, n)
      i == eachNext(f.idx, skip)
      g == [f EXCEPT !.idx = i,
                     !.pc = IF i > Len(nGrams) THEN "selectLexicon" ELSE "eachNGram"]
  IN IF skip
     THEN [g EXCEPT !.eachErr = TRUE,
                    !.console = IF ~f.eachErr /\ GreaterThan(f.opts.o["logs"], 1)
                                THEN Warn(f, "wordcount less than n-gram value. Ignoring.")
                                ELSE f.console]
     ELSE [g EXCEPT !.tokens = Arr(simplengrams(f.str, n) \o f.tokens.a),
                    !.calls = Append(f.calls, [fn |-> "simplengrams", str |-> f.str, n |-> n])]

\* as line 152 of v3.0.1 has it: any truthy wcGrams recounts
recountTruthy(wcGrams, wc, ts) == IF Truthy(wcGrams) THEN Len(ts) ELSE wc

\* line 160: the word count handed on
recount(wcGrams, wc, ts) == IF wcGrams = True THEN Len(ts) ELSE wc

\* line 176: whether the Spanish lexicon is used
usesSpanish(o) == Match(o["output"].s, "spanish") \/ Match(o["output"].s, "espanol")

\* as lines 168-181 of v3.0.1 have it: noInt is not looked at
interceptsAlways(lex, noInt) == IF lex = "spanish" THEN SpanishInts ELSE ZeroInts

\* lines 163-191: the intercepts for the lexicon chosen
intercepts(lex, noInt) ==
  IF lex = "spanish" /\ LooseEqFalse(noInt) THEN SpanishInts ELSE ZeroInts

\* lines 160-192.  output.match throws a TypeError when output is no string.
selectLexicon(f) ==
  LET o == f.opts.o
      wc == recount(o["wcGrams"], f.wordcount, f.tokens.a)
  IN IF o["output"].t # "string"
     THEN [f EXCEPT !.pc = "thrown", !.wordcount = wc, !.lexicon = "english",
                    !.result = Throw("TypeError")]
     ELSE LET lex == IF usesSpanish(o) THEN "spanish" ELSE "english" IN
          [f EXCEPT !.pc = "getMatches", !.wordcount = wc, !.lexicon = lex,
                    !.ints = intercepts(lex, o["noInt"])]

\* line 194
match(f) ==
  LET o == f.opts.o
      counts == itemCount(f.tokens.a)
  IN [f EXCEPT !.pc = "output",
               !.matches = getMatches(counts, Lexicons[f.lexicon], o["min"], o["max"]),
               !.calls = f.calls
                 \o <<[fn |-> "itemCount", tokens |-> f.tokens.a],
                      [fn |-> "getMatches", counts |-> counts, lexicon |-> f.lexicon,
                       min |-> o["min"], max |-> o["max"]]>>]

LexCall(f) ==
  [fn |-> "doLex", ints |-> f.ints, encoding |-> f.opts.o["encoding"],
   wordcount |-> f.wordcount, places |-> f.opts.o["places"]]

MatchesCall(f) ==
  [fn |-> "doMatches", encoding |-> f.opts.o["encoding"], wordcount |-> f.wordcount,
   sortBy |-> f.opts.o["sortBy"], places |-> f.opts.o["places"]]

\* as lines 191-201 of v3.0.1 have it: the results are returned from the
\* callback, not from the call
fullResultLost(res) == ReturnUndefined

\* lines 201-213: async.parallel runs both tasks and its final callback
\* before it returns, so results is set when line 213 returns it
fullResult(res) == [kind |-> "full", values |-> res.values, matches |-> res.matches]

\* lines 196-220
output(f) ==
  LET o == f.opts.o
      lex == doLex(f.matches, f.ints, o["encoding"], f.wordcount, o["places"])
      mat == doMatches(f.matches, o["encoding"], f.wordcount, o["sortBy"], o["places"])
  IN IF Match(o["output"].s, "matches")
     THEN [f EXCEPT !.pc = "done", !.result = [kind |-> "matches", matches |-> mat],
                    !.calls = Append(f.calls, MatchesCall(f))]
     ELSE IF Match(o["output"].s, "full")
     THEN [f EXCEPT !.pc = "done", !.result = fullResult([matches |-> mat, values |-> lex]),
                    !.calls = f.calls \o <<MatchesCall(f), LexCall(f)>>]
     ELSE [f EXCEPT !.pc = "done", !.result = [kind |-> "lex", values |-> lex],
                    !.calls = Append(f.calls, LexCall(f)),
                    !.console = IF ~Match(o["output"].s, "lex") /\ GreaterThan(o["logs"], 1)
                                THEN Warn(f, "output option is invalid, defaulting to lex.")
                                ELSE f.console]

\* the statement group a call is at
Step(f) ==
  CASE f.pc = "defaults"      -> defaultOptions(f)
    [] f.pc = "checkStr"      -> checkStr(f)
    [] f.pc = "normalise"     -> normalise(f)
    [] f.pc = "tokenize"      -> tokenize(f)
    [] f.pc = "eachNGram"     -> eachNGram(f)
    [] f.pc = "selectLexicon" -> selectLexicon(f)
    [] f.pc = "getMatches"    -> match(f)
    [] f.pc = "output"        -> output(f)
    [] OTHER -> f

RECURSIVE wellbeingAnalysisFrom(_)
\* a call run from f to its return or throw
wellbeingAnalysisFrom(f) ==
  IF f.pc \in {"done", "thrown", "idle"} THEN f ELSE wellbeingAnalysisFrom(Step(f))

\* wellbeingAnalysis(str, opts): what the call returns or throws
wellbeingAnalysis(s, o, te) == wellbeingAnalysisFrom(Called(s, o, te)).result

---------------------------------------------------------------------------
(* The state machine.                                                      *)

Frame ==
  [pc |-> pc, args |-> args, str |-> str, opts |-> opts, tokEmpty |-> tokEmpty, tokens |-> tokens,
   wordcount |-> wordcount, idx |-> idx, eachErr |-> eachErr, lexicon |-> lexicon,
   ints |-> ints, matches |-> matches, result |-> result, console |-> console,
   calls |-> calls]

Becomes(f) ==
  /\ pc' = f.pc /\ args' = f.args /\ str' = f.str /\ opts' = f.opts /\ tokEmpty' = f.tokEmpty
  /\ tokens' = f.tokens /\ wordcount' = f.wordcount /\ idx' = f.idx
  /\ eachErr' = f.eachErr /\ lexicon' = f.lexicon /\ ints' = f.ints
  /\ matches' = f.matches /\ result' = f.result /\ console' = f.console
  /\ calls' = f.calls

\* no call made yet
Idle == [Called(StrUndefined, OptsUndefined, "null") EXCEPT !.pc = "idle"]

Init ==
  /\ pc = Idle.pc /\ args = Idle.args /\ str = Idle.str /\ opts = Idle.opts /\ tokEmpty = Idle.tokEmpty
  /\ tokens = Idle.tokens /\ wordcount = Idle.wordcount /\ idx = Idle.idx
  /\ eachErr = Idle.eachErr /\ lexicon = Idle.lexicon /\ ints = Idle.ints
  /\ matches = Idle.matches /\ result = Idle.result /\ console = Idle.console
  /\ calls = Idle.calls
  /\ previous = NoResult

\* the caller calls wellbeingAnalysis(s, o); the installed tokenizer's way
\* of reporting "no tokens" matters only to a text without words
Call ==
  /\ pc = "idle"
  /\ \E s \in StrInputs, o \in OptsInputs :
       \E te \in (IF s.words = <<>> THEN {"null", "empty"} ELSE {"null"}) :
         Becomes(Called(s, o, te))
  /\ UNCHANGED previous

\* the call has returned or thrown
Finished == pc \in {"done", "thrown"}

\* the options the caller holds once the call is over: its object, which
\* the call wrote on (lines 86-115), or the value it passed; the {} of
\* line 84 never reaches the caller
Held == IF args.opts.t = "object" THEN opts ELSE args.opts

\* the caller calls again with the same text and the options it holds.
\* Nothing but the caller's object outlives a call: every binding outside
\* the function is a const import (lines 63-76), so the calls others make
\* in between with their own options leave this state as it is.
CallAgain ==
  /\ Finished /\ previous = NoResult
  /\ Becomes(Called(args.str, Held, tokEmpty))
  /\ previous' = result

DefaultOptions == pc = "defaults" /\ Becomes(defaultOptions(Frame)) /\ UNCHANGED previous
CheckStr       == pc = "checkStr" /\ Becomes(checkStr(Frame)) /\ UNCHANGED previous
Normalise      == pc = "normalise" /\ Becomes(normalise(Frame)) /\ UNCHANGED previous
Tokenize       == pc = "tokenize" /\ Becomes(tokenize(Frame)) /\ UNCHANGED previous
EachNGram      == pc = "eachNGram" /\ Becomes(eachNGram(Frame)) /\ UNCHANGED previous
SelectLexicon  == pc = "selectLexicon" /\ Becomes(selectLexicon(Frame)) /\ UNCHANGED previous
GetMatches     == pc = "getMatches" /\ Becomes(match(Frame)) /\ UNCHANGED previous
Output         == pc = "output" /\ Becomes(output(Frame)) /\ UNCHANGED previous

Next ==
  \/ Call
  \/ CallAgain
  \/ DefaultOptions
  \/ CheckStr
  \/ Normalise
  \/ Tokenize
  \/ EachNGram
  \/ SelectLexicon
  \/ GetMatches
  \/ Output

Spec == Init /\ [][Next]_vars

---------------------------------------------------------------------------
(* What the claims speak of.                                               *)

\* the option k as the caller gave it
Given(k) == IF args.opts.t = "object" THEN args.opts.o[k] ELSE Undefined

\* the positions in calls of the calls made to fn
CallsTo(fn) == {i \in 1..Len(calls) : calls[i].fn = fn}

\* the text has words, so the tokenizer yields tokens
Tokenizes == ~StrFalsy(args.str) /\ args.str.words # <<>>

\* the distinct units of a list
UnitsOf(ts) == {ts[i] : i \in 1..Len(ts)}

\* the arguments with the option k given as v
ArgsWith(k, v) == Obj([(IF args.opts.t = "object" THEN args.opts.o ELSE EmptyObject)
                        EXCEPT ![k] = v])

---------------------------------------------------------------------------
(* C1.  The lexicon handed to getMatches and the intercepts handed to      *)
(* doLex follow opts.lang: Spanish for 'spanish' (the Spanish intercepts   *)
(* when noInt is false), English and zero intercepts for 'english' or no   *)
(* lang, whatever opts.output is.                                          *)
C1_LexiconFollowsLang ==
  LET lang == Given("lang")
      es == lang = Str("spanish")
  IN lang \in {Undefined, Str("english"), Str("spanish")} =>
       /\ \A i \in CallsTo("getMatches") :
            calls[i].lexicon = IF es THEN "spanish" ELSE "english"
       /\ \A i \in CallsTo("doLex") :
            /\ es /\ Given("noInt") \in {Undefined, False} => calls[i].ints = SpanishInts
            /\ ~es => calls[i].ints = ZeroInts

(* C2.  Binary encoding, output 'lex': every category's value is the       *)
(* intercept of the language asked for plus the sum of the weights of the  *)
(* distinct units of that language's lexicon that occur among the text's   *)
(* units and pass the min/max filter, however often they occur.            *)
C2_BinaryValue ==
  LET lang == IF Given("lang") = Str("spanish") THEN "spanish" ELSE "english"
      int == IF lang = "spanish" THEN SpanishInts ELSE ZeroInts
      present(c) == {u \in DOMAIN Lexicons[lang][c] \cap UnitsOf(tokens.a) :
                       InBounds(Lexicons[lang][c][u], opts.o["min"], opts.o["max"])}
  IN (/\ pc = "done" /\ Tokenizes
      /\ Given("encoding") \in {Undefined, Str("binary")}
      /\ Given("output") \in {Undefined, Str("lex")}
      /\ Given("lang") \in {Undefined, Str("english"), Str("spanish")}
      /\ Given("noInt") \in {Undefined, False})
     => /\ result.kind = "lex"
        /\ \A c \in Categories :
             /\ result.values[c].intercept = int[c]
             /\ result.values[c].sum
                  = Frac(SumOver([u \in present(c) |-> Lexicons[lang][c][u]], present(c)), 1)

(* C3.  A falsy text (empty string, null, undefined) makes the call return *)
(* null, whatever is passed as options, without throwing and without a     *)
(* call to the tokenizer, the n-gram generator or getMatches.              *)
C3_FalsyTextReturnsNull ==
  StrFalsy(args.str) /\ pc # "idle" =>
    /\ pc # "thrown"
    /\ calls = <<>>
    /\ Finished => result = ReturnNull

(* C4.  When the tokenizer yields no tokens, as null or as an empty list,  *)
(* the call returns null, does not throw and goes no further: no n-grams,  *)
(* no getMatches, no doLex, no doMatches.                                  *)
C4_NoTokensReturnsNull ==
  (\E i \in CallsTo("tokenizer") : calls[i].str.words = <<>>) =>
    /\ pc = "done" /\ result = ReturnNull
    /\ \A i \in 1..Len(calls) : calls[i].fn \in {"uk2us", "tokenizer"}

RECURSIVE SpansOf(_, _)
\* the units of the spans ng of the text s that are no longer than s
SpansOf(s, ng) ==
  IF ng = <<>> THEN <<>>
  ELSE (IF Head(ng) <= Len(s.words) THEN simplengrams(s, Head(ng)) ELSE <<>>)
         \o SpansOf(s, Tail(ng))

\* async.each has gone through nGrams
AfterEach == pc \in {"selectLexicon", "getMatches", "output"}
               \/ (Finished /\ tokens.t = "array")

(* C5.  For an nGrams without 0 and a text of W >= 1 words, the units      *)
(* counted and matched are the W words and, for each n of nGrams with      *)
(* n <= W, all n-grams of the text; a span longer than the text is left    *)
(* out without an exception and without stopping the other spans; all are  *)
(* added before itemCount is called; and when every span is longer than    *)
(* the text the result is that of the call with n-grams disabled.          *)
C5_SpansWithinTextAreAdded ==
  LET ng == opts.o["nGrams"].a
      W == Len(str.words)
      expected == itemCount(str.words \o SpansOf(str, ng))
      fits(n) == n <= W
      made == [i \in 1..Len(calls) |-> IF calls[i].fn = "simplengrams" THEN calls[i].n ELSE 0]
  IN (AfterEach /\ W >= 1 /\ wantsNGrams(opts.o["nGrams"])) =>
       /\ itemCount(tokens.a) = expected
       /\ \A i \in CallsTo("itemCount") : itemCount(calls[i].tokens) = expected
       /\ SelectSeq(made, LAMBDA n : n # 0) = SelectSeq(ng, fits)
       /\ pc = "thrown" => opts.o["output"].t # "string"
       /\ (Finished /\ \A i \in 1..Len(ng) : ng[i] > W) =>
            result = wellbeingAnalysis(args.str, ArgsWith("nGrams", Arr(<<0>>)), tokEmpty)

C5_Witness ==
  /\ pc = "done" /\ opts.o["nGrams"] = Arr(<<5, 2>>) /\ eachErr
  /\ Len(str.words) = 3 /\ Len(tokens.a) = 5
  /\ result.kind = "full"

(* C6.  The word count handed to doLex and doMatches is the number of      *)
(* tokens the tokenizer returned unless wcGrams is true, and the number of *)
(* all units, n-grams included, when wcGrams is true; both calls of output *)
(* 'full' get the same word count.                                         *)
C6_WordCountHandedOn ==
  \A i \in CallsTo("doLex") \cup CallsTo("doMatches") :
    /\ Given("wcGrams") # True => calls[i].wordcount = Len(tokenizer(str, tokEmpty).a)
    /\ Given("wcGrams") = True => calls[i].wordcount = Len(tokens.a)
    /\ \A j \in CallsTo("doLex") \cup CallsTo("doMatches") :
         calls[j].wordcount = calls[i].wordcount

C6_Witness ==
  /\ pc = "done" /\ Given("wcGrams") = Str("true") /\ Given("output") = Str("full")
  /\ Len(tokens.a) > Len(str.words)
  /\ CallsTo("doLex") # {} /\ CallsTo("doMatches") # {}

(* C7.  With noInt true the intercepts handed to doLex are all zero in     *)
(* either language; with noInt false and the Spanish lexicon chosen they   *)
(* are the ten nonzero Spanish intercepts; and which lexicon is chosen     *)
(* does not depend on noInt.                                               *)
C7_NoIntZeroesIntercepts ==
  /\ \A i \in CallsTo("doLex") :
       /\ Given("noInt") = True => calls[i].ints = ZeroInts
       /\ (Given("noInt") \in {Undefined, False} /\ lexicon = "spanish") =>
            /\ calls[i].ints = SpanishInts
            /\ \A c \in Categories : calls[i].ints[c] # <<0, 0>>
  /\ (pc = "done" /\ lexicon # "none") =>
       \A v \in {Undefined, True, False} :
         wellbeingAnalysisFrom(Called(args.str, ArgsWith("noInt", v), tokEmpty)).lexicon
           = lexicon

C7_Witness ==
  /\ pc = "done" /\ lexicon = "spanish" /\ Given("noInt") = True
  /\ \E i \in CallsTo("doLex") : calls[i].ints = ZeroInts

(* C8.  Output 'full' on a text that tokenizes returns an object with      *)
(* exactly the two results, set when the call returns: 'values' is what    *)
(* the same call with output 'lex' returns, 'matches' what the same call   *)
(* with output 'matches' returns.                                          *)
C8_FullIsLexAndMatches ==
  (Finished /\ Tokenizes /\ Given("output") = Str("full")) =>
    /\ pc = "done" /\ result.kind = "full"
    /\ DOMAIN result = {"kind", "values", "matches"}
    /\ result.values
         = wellbeingAnalysis(args.str, ArgsWith("output", Str("lex")), tokEmpty).values
    /\ result.matches
         = wellbeingAnalysis(args.str, ArgsWith("output", Str("matches")), tokEmpty).matches

C8_Witness ==
  /\ pc = "done" /\ Tokenizes /\ Given("output") = Str("full")
  /\ result.kind = "full"
  /\ result.values["POS_P"].sum.num # 0
  /\ Len(result.matches["POS_P"].matches) > 0

(* C9.  Any output other than 'lex', 'matches' and 'full', a string or     *)
(* not, on a text that tokenizes: the call returns what output 'lex'       *)
(* returns, warns when logs > 1, and does not throw.                       *)
C9_OtherOutputIsLex ==
  (/\ Finished /\ Tokenizes /\ args.opts.t = "object"
   /\ Given("output") \notin {Undefined, Str("lex"), Str("matches"), Str("full")}) =>
    /\ pc = "done"
    /\ result = wellbeingAnalysis(args.str, ArgsWith("output", Str("lex")), tokEmpty)
    /\ GreaterThan(opts.o["logs"], 1) =>
         \E i \in 1..Len(console) :
           console[i] = [level |-> "warn", msg |-> "output option is invalid, defaulting to lex."]

GivenZeroSpan ==
  Given("nGrams").t = "array" /\ \E i \in 1..Len(Given("nGrams").a) : Given("nGrams").a[i] = 0

(* C11.  With nGrams [0], [] or 0 the n-gram generator is not called and   *)
(* the units matched are the tokenizer's tokens; an nGrams that holds 0    *)
(* beside other spans generates no n-grams either; an nGrams left unset    *)
(* becomes [2, 3].                                                         *)
C11_DisabledNGrams ==
  /\ (AfterEach /\ (GivenZeroSpan \/ Given("nGrams") \in {Arr(<<>>), Num(0)})) =>
       /\ CallsTo("simplengrams") = {}
       /\ tokens.a = tokenizer(str, tokEmpty).a
       /\ \A i \in CallsTo("itemCount") : calls[i].tokens = tokenizer(str, tokEmpty).a
  /\ (pc \notin {"idle", "defaults", "thrown"} /\ Given("nGrams") = Undefined) =>
       opts.o["nGrams"] = Arr(<<2, 3>>)

C11_Witness ==
  /\ pc = "done" /\ Given("nGrams") = Arr(<<0, 2>>)
  /\ Len(str.words) = 2 /\ tokens.a = str.words
  /\ CallsTo("getMatches") # {}

RECURSIVE Repeated(_, _)
\* the words of a text written k times over
Repeated(ws, k) == IF k = 0 THEN <<>> ELSE ws \o Repeated(ws, k - 1)

\* the text of the call is scored by frequency and gives a lex result
FrequencyScored ==
  /\ pc = "done" /\ Tokenizes /\ args.str.t = "string"
  /\ Given("encoding") = Str("frequency")
  /\ result.kind = "lex"

\* the call for the text written k times over gives the same scores, k
\* times the count of every unit and k times the word count
ScalesBy(k) ==
  LET r == wellbeingAnalysisFrom(Called(Text(args.str.pad, Repeated(args.str.words, k)),
                                        args.opts, tokEmpty))
      one == itemCount(tokens.a)
      many == itemCount(r.tokens.a)
  IN /\ r.result = result
     /\ r.wordcount = k * wordcount
     /\ DOMAIN many = DOMAIN one
     /\ \A u \in DOMAIN one : many[u] = k * one[u]

(* C13, as stated.  Under encoding 'frequency' and the default nGrams      *)
(* [2, 3], the text repeated k times gets the scores of the text, every    *)
(* unit's count and the word count being k times what they were.           *)
C13_RepetitionScalesUnderDefaultNGrams ==
  (FrequencyScored /\ Given("nGrams") \in {Undefined, Arr(<<2, 3>>)}) =>
    \A k \in 1..MaxRepeat : ScalesBy(k)

(* C13, amended.  Under encoding 'frequency', when no n-grams are          *)
(* generated (nGrams [0], [], 0 or an array that holds 0), the text        *)
(* repeated k times gets the scores of the text, every unit's count and    *)
(* the word count being k times what they were.                            *)
C13_RepetitionScalesWithoutNGrams ==
  (FrequencyScored /\ (GivenZeroSpan \/ Given("nGrams") \in {Arr(<<>>), Num(0)})) =>
    \A k \in 1..MaxRepeat : ScalesBy(k)

C13_Witness ==
  /\ FrequencyScored /\ Given("nGrams") = Arr(<<0>>)
  /\ args.str.words = <<"Happy", "colour", "Happy">>
  /\ result.values["POS_P"].sum # Frac(0, 1)

(* C14.  The units of a call are in order: the words of the text first,    *)
(* then the units of each requested span in the order of nGrams; and each  *)
(* unit occurs as often as it does in any other order.                     *)
C14_WordsThenSpansInOrder ==
  LET ng == opts.o["nGrams"].a
      ordered == str.words \o SpansOf(str, ng)
  IN (AfterEach /\ Len(str.words) >= 1 /\ wantsNGrams(opts.o["nGrams"])) =>
       /\ tokens.a = ordered
       /\ \A i \in CallsTo("itemCount") : calls[i].tokens = ordered
       /\ itemCount(tokens.a) = itemCount(ordered)

\* the console lines of the level l
Written(l) == {i \in 1..Len(console) : console[i].level = l}

(* C15.  With logs 0 or a truthy suppressLog the call writes nothing to    *)
(* the console; with logs 1 it writes no warning; a warning (nGrams not an *)
(* array, no string, no tokens, a span left out, an invalid output) is     *)
(* written only with logs of 2 or more; and the notice of a span left out  *)
(* is a warning, not an error.                                             *)
C15_LogsLevelBoundsConsole ==
  LET logs == Given("logs")
      quiet == Truthy(Given("suppressLog")) \/ logs = Num(0)
  IN /\ quiet => console = <<>>
     /\ logs = Num(1) => Written("warn") = {}
     /\ Written("warn") # {} => ~quiet /\ (logs = Undefined \/ GreaterThan(logs, 1))
     /\ \A i \in 1..Len(console) :
          console[i].msg = "wordcount less than n-gram value. Ignoring." =>
            console[i].level = "warn"

C15_Witness ==
  /\ pc = "done" /\ Given("logs") = Num(2) /\ Len(args.str.words) = 1
  /\ [i \in 1..Len(console) |-> console[i].msg]
       = <<"nGrams option must be an array! Defaulting to [2, 3].",
           "wordcount less than n-gram value. Ignoring.",
           "output option is invalid, defaulting to lex.">>
  /\ Written("warn") = 1..3

\* the bound a caller's v should come to, d being the infinite default
BoundOf(v, d) ==
  IF TypeOf(v) = "undefined" \/ ToNumber(v) = NaN THEN d ELSE ToNumber(v)

(* C16.  The min and max handed to getMatches are numbers and never NaN:   *)
(* the value of a number or numeric string given, -Infinity (min) or       *)
(* +Infinity (max) when the option is unset or cannot be converted.        *)
C16_BoundsAreNeverNaN ==
  \A i \in CallsTo("getMatches") :
    /\ calls[i].min # NaN /\ calls[i].max # NaN
    /\ TypeOf(calls[i].min) = "number" /\ TypeOf(calls[i].max) = "number"
    /\ calls[i].min = BoundOf(Given("min"), NegInf)
    /\ calls[i].max = BoundOf(Given("max"), PosInf)

---------------------------------------------------------------------------
(* v3.0.1 of wellbeingAnalysis (src/unnamed/part_001, lines 82-210), on    *)
(* the same variables.  Line numbers in this section are of that file.     *)

\* lines 89-98: max and min; Number() gives a number, so the test of lines
\* 96-97 always takes the infinite default
minMaxV3(o) ==
  LET a == Default(Default(o, "max", PosInf), "min", NegInf) IN
  IF TypeOf(a["max"]) # "number" \/ TypeOf(a["min"]) # "number"
  THEN LET b == [a EXCEPT !["min"] = ToNumber(a["min"]), !["max"] = ToNumber(a["max"])] IN
       [b EXCEPT !["max"] = IF TypeOf(b["max"]) # "number" THEN b["max"] ELSE PosInf,
                 !["min"] = IF TypeOf(b["min"]) # "number" THEN b["min"] ELSE NegInf]
  ELSE a

\* lines 99-106: nGrams, without the warning
nGramsOptionV3(o) ==
  LET a == Default(o, "nGrams", Arr(<<2, 3>>)) IN
  IF a["nGrams"].t # "array" THEN [a EXCEPT !["nGrams"] = Arr(<<2, 3>>)] ELSE a

\* lines 84-110: opts after the defaults
normalisedOptionsV3(o) ==
  LET a == Default(Default(Default(Default(o, "encoding", Str("binary")),
                     "lang", Str("english")), "locale", Str("US")), "logs", Num(3))
      b == IF Truthy(a["suppressLog"]) THEN [a EXCEPT !["logs"] = Num(0)] ELSE a
      c == nGramsOptionV3(minMaxV3(b))
  IN Default(Default(Default(Default(c, "output", Str("lex")), "places", Num(9)),
               "sortBy", Str("freq")), "wcGrams", False)

\* lines 82-116; strict mode (line 58) as in v4.0.0
defaultOptionsV3(f) ==
  IF f.opts.t \in {"null", "number"}
  THEN [f EXCEPT !.pc = "thrown", !.result = Throw("TypeError")]
  ELSE LET o == normalisedOptionsV3(f.opts.o)
           given == f.opts.o["nGrams"]
       IN [f EXCEPT !.pc = "checkStr", !.opts = Obj(o),
                    !.console = IF /\ TypeOf(given) # "undefined" /\ given.t # "array"
                                   /\ GreaterThan(o["logs"], 1)
                                THEN Warn(f, "nGrams option must be an array! Defaulting to [2, 3].")
                                ELSE f.console]

\* lines 119-122, the text of lines 124-127 of v4.0.0
checkStrV3(f) == checkStr(f)

\* lines 124-128: translated when the locale is 'GB', whatever the language
normaliseV3(f) ==
  LET s == TrimLower(ToStringOf(f.str)) IN
  IF f.opts.o["locale"] = Str("GB")
  THEN [f EXCEPT !.pc = "tokenize", !.str = uk2us(s),
                 !.calls = Append(f.calls, [fn |-> "uk2us", str |-> s])]
  ELSE [f EXCEPT !.pc = "tokenize", !.str = s]

\* lines 130-139: nGrams is an array after line 106, so line 139 is true
tokenizeV3(f) ==
  LET ts == tokenizer(f.str, f.tokEmpty)
      cs == Append(f.calls, [fn |-> "tokenizer", str |-> f.str, logs |-> f.opts.o["logs"]])
  IN IF NoTokens(ts)
     THEN [f EXCEPT !.pc = "done", !.tokens = ts, !.calls = cs, !.result = ReturnNull,
                    !.console = IF GreaterThan(f.opts.o["logs"], 1)
                                THEN Warn(f, "no tokens found. Returned null.") ELSE f.console]
     ELSE [f EXCEPT !.tokens = ts, !.calls = cs, !.wordcount = Len(ts.a), !.idx = 1,
                    !.pc = IF Len(f.opts.o["nGrams"].a) > 0
                           THEN "eachNGram" ELSE "selectLexicon"]

\* lines 140-150: the iteratee on nGrams[idx], and the final callback,
\* which writes the first error as an error when logs > 0
eachNGramV3(f) ==
  LET nGrams == f.opts.o["nGrams"].a
      n == nGrams[f.idx]
      skip == f.wordcount < n
      i == f.idx + 1
      g == [f EXCEPT !.idx = i, !.pc = IF i > Len(nGrams) THEN "selectLexicon" ELSE "eachNGram"]
  IN IF skip
     THEN [g EXCEPT !.eachErr = TRUE,
                    !.console = IF ~f.eachErr /\ GreaterThan(f.opts.o["logs"], 0)
                                THEN Error(f, "nGram error: wordcount less than n-gram value. Ignoring.")
                                ELSE f.console]
     ELSE [g EXCEPT !.tokens = Arr(simplengrams(f.str, n) \o f.tokens.a),
                    !.calls = Append(f.calls, [fn |-> "simplengrams", str |-> f.str, n |-> n])]

\* lines 152-182: wcGrams is tested for truth, and the Spanish intercepts
\* go with the Spanish lexicon
selectLexiconV3(f) ==
  LET o == f.opts.o
      wc == IF Truthy(o["wcGrams"]) THEN Len(f.tokens.a) ELSE f.wordcount
  IN IF o["output"].t # "string"
     THEN [f EXCEPT !.pc = "thrown", !.wordcount = wc, !.lexicon = "english",
                    !.result = Throw("TypeError")]
     ELSE LET lex == IF usesSpanish(o) THEN "spanish" ELSE "english" IN
          [f EXCEPT !.pc = "getMatches", !.wordcount = wc, !.lexicon = lex,
                    !.ints = IF lex = "spanish" THEN SpanishInts ELSE ZeroInts]

\* line 184, the text of line 194 of v4.0.0
matchV3(f) == match(f)

\* lines 186-209: under 'full' the return of line 200 is the callback's,
\* and the call ends without a return statement
outputV3(f) ==
  LET o == f.opts.o
      lex == doLex(f.matches, f.ints, o["encoding"], f.wordcount, o["places"])
      mat == doMatches(f.matches, o["encoding"], f.wordcount, o["sortBy"], o["places"])
  IN IF Match(o["output"].s, "matches")
     THEN [f EXCEPT !.pc = "done", !.result = [kind |-> "matches", matches |-> mat],
                    !.calls = Append(f.calls, MatchesCall(f))]
     ELSE IF Match(o["output"].s, "full")
     THEN [f EXCEPT !.pc = "done", !.result = ReturnUndefined,
                    !.calls = f.calls \o <<MatchesCall(f), LexCall(f)>>]
     ELSE [f EXCEPT !.pc = "done", !.result = [kind |-> "lex", values |-> lex],
                    !.calls = Append(f.calls, LexCall(f)),
                    !.console = IF ~Match(o["output"].s, "lex") /\ GreaterThan(o["logs"], 1)
                                THEN Warn(f, "output option is invalid, defaulting to lex.")
                                ELSE f.console]

\* Options on which the output shape and the weight filter of v3.0.1 depend
OptionsV3 ==
  {With(EmptyObject, ("output" :> out) @@ ("min" :> mn) @@ ("max" :> mx) @@ ("locale" :> lc)) :
     out \in {Undefined, Str("full"), Str("matches"), Str("values")},
     mn \in {Undefined, Num(-100), Str("0"), Str("x")},
     mx \in {Undefined, Num(200), Str("0.25")},
     lc \in {Undefined, Str("GB")}}

CallV3 ==
  /\ pc = "idle"
  /\ \E s \in StrInputs, o \in {OptsUndefined, OptsNull} \cup {Obj(p) : p \in OptionsV3} :
       \E te \in (IF s.words = <<>> THEN {"null", "empty"} ELSE {"null"}) :
         Becomes(Called(s, o, te))
  /\ UNCHANGED previous

DefaultOptionsV3 == pc = "defaults" /\ Becomes(defaultOptionsV3(Frame)) /\ UNCHANGED previous
CheckStrV3       == pc = "checkStr" /\ Becomes(checkStrV3(Frame)) /\ UNCHANGED previous
NormaliseV3      == pc = "normalise" /\ Becomes(normaliseV3(Frame)) /\ UNCHANGED previous
TokenizeV3       == pc = "tokenize" /\ Becomes(tokenizeV3(Frame)) /\ UNCHANGED previous
EachNGramV3      == pc = "eachNGram" /\ Becomes(eachNGramV3(Frame)) /\ UNCHANGED previous
SelectLexiconV3  == pc = "selectLexicon" /\ Becomes(selectLexiconV3(Frame)) /\ UNCHANGED previous
GetMatchesV3     == pc = "getMatches" /\ Becomes(matchV3(Frame)) /\ UNCHANGED previous
OutputV3         == pc = "output" /\ Becomes(outputV3(Frame)) /\ UNCHANGED previous

NextV3 ==
  \/ CallV3
  \/ DefaultOptionsV3
  \/ CheckStrV3
  \/ NormaliseV3
  \/ TokenizeV3
  \/ EachNGramV3
  \/ SelectLexiconV3
  \/ GetMatchesV3
  \/ OutputV3

SpecV3 == Init /\ [][NextV3]_vars

\* the caller gave v as a number or as a numeric string
GivenNumeric(v) == TypeOf(v) \in {"number", "string"} /\ ToNumber(v) # NaN

(* C17.  In v3.0.1 a call with output 'full' on a text that tokenizes      *)
(* returns the object of the values and the matches, not undefined; and a  *)
(* min or max given as a number or a numeric string reaches getMatches     *)
(* with its numeric value, not with the infinite default.                  *)
C17_V3FullAndBounds ==
  /\ (pc = "done" /\ Tokenizes /\ Given("output") = Str("full")) =>
       /\ result # ReturnUndefined
       /\ result.kind = "full"
  /\ \A i \in CallsTo("getMatches") :
       /\ GivenNumeric(Given("min")) => calls[i].min = ToNumber(Given("min"))
       /\ GivenNumeric(Given("max")) => calls[i].max = ToNumber(Given("max"))

(* C18.  A call changes nothing that outlives it: once it has returned a   *)
(* result or null, the options object the caller supplied holds the values *)
(* it held before the call.                                                *)
C18_CallersOptionsUntouched ==
  (pc = "done" /\ args.opts.t = "object") => Held = args.opts

(* C19.  The word count handed to doLex and doMatches is 1 or more,        *)
(* whatever the text, the tokenizer's result and the nGrams and wcGrams    *)
(* given.                                                                  *)
C19_WordCountAtLeastOne ==
  \A i \in CallsTo("doLex") \cup CallsTo("doMatches") : calls[i].wordcount >= 1
=============================================================================
